---- MODULE Spec2Model ----
(***************************************************************************)
(* A model of package httpsession: the SessionStore middleware             *)
(* (src/httpsession/httpsession.go) running over the in-memory store       *)
(* (src/httpsession/memorystore.go).                                       *)
(*                                                                         *)
(* Each request is one goroutine running SessionStore.Handler.  The steps  *)
(* of a request that touch shared state (the store's map under its lock,   *)
(* the sync.Map `active`) are atomic one by one, and requests interleave   *)
(* between them.  Time is counted in ticks of 1/TicksPerSecond second.     *)
(***************************************************************************)
EXTENDS Integers, Sequences, FiniteSets, TLC

\* ---- bounds of the model ------------------------------------------------
NumReqs == 2          \* request goroutines that may overlap
NumRand == 2          \* identifiers rand.Text() can hand out in one run
MaxStarts == 3        \* requests received in one run
MaxFaults == 1        \* Store calls that return an error in one run
MaxTime == 5          \* last tick of the clock
MaxN == 1             \* largest counter value kept in the session payload
NumCallers == 2       \* goroutines that call the memoryStore at the same time
TicksPerSecond == 2   \* resolution of the clock

\* ---- configuration of the SessionStore (scaled to ticks) ----------------
IdleTimeout == 2
AbsoluteTimeout == 3

Reqs == 1..NumReqs
\* rand.Text() is modelled as a supply of distinct identifiers
RandName(i) ==
  CASE i = 1 -> "r1" [] i = 2 -> "r2" [] i = 3 -> "r3" [] i = 4 -> "r4"
    [] i = 5 -> "r5" [] OTHER -> "r6"
RandIDs == {RandName(i) : i \in 1..NumRand}
\* identifiers a caller passes to Renew
KnownIDs == {"known"}
IDs == RandIDs \cup KnownIDs

\* The zero time.Time{}; the clock starts after it.
ZeroTime == 0

VARIABLES
  now,        \* the clock read by m.now() and time.Now()
  store,      \* memoryStore.m : ID -> Record
  active,     \* SessionStore.active, the guard: set of registered IDs
  nextRand,   \* how many identifiers rand.Text() has produced
  issued,     \* session IDs a client has received in a Set-Cookie header
  started,    \* how many requests have been received
  faults,     \* how many Store calls have returned an error
  req,        \* the state of each request goroutine, see IdleReq
  mem,        \* the latest direct calls of the memoryStore, see NoCalls
  mu,         \* memoryStore.mu, the RWMutex: who holds it
  callers,    \* the goroutines that call the memoryStore directly, see IdleCaller
  lin,        \* the map as the calls leave it when each takes effect at one instant
  cleanup     \* the goroutine started by DeleteExpiredInterval, see NoCleanup

vars == <<now, store, active, nextRand, issued, started, faults, req, mem, mu, callers, lin, cleanup>>

\* ---- pure helpers -------------------------------------------------------

\* time.Time.After / time.Time.Before
After(a, b) == a > b
Before(a, b) == a < b

\* int(d.Seconds()): the whole seconds of a duration, truncated toward zero
WholeSeconds(d) == IF d >= 0 THEN d \div TicksPerSecond ELSE -((-d) \div TicksPerSecond)

\* The zero value of Record[T]
ZeroRecord == [ID |-> "", IdleDeadline |-> ZeroTime, AbsoluteDeadline |-> ZeroTime,
               Session |-> 0, deleted |-> FALSE, readOnly |-> FALSE]

\* SessionStore.getRecord: a pooled record with its flags reset
GetRecord == [ZeroRecord EXCEPT !.deleted = FALSE, !.readOnly = TRUE]

\* rand.Text(): an identifier never produced before
NextID == RandName(nextRand + 1)

\* A Load that would not treat an expired record as missing
MemLoadNoExpiry(m, id, t) ==
  LET inMap == id \in DOMAIN m
  IN  [ret |-> IF inMap THEN m[id] ELSE ZeroRecord, found |-> inMap]

\* A Load that would test the absolute deadline instead of the idle one
MemLoadAbsoluteOnly(m, id, t) ==
  LET inMap == id \in DOMAIN m
      ret == IF inMap THEN m[id] ELSE ZeroRecord
  IN  [ret |-> ret, found |-> inMap /\ ~After(t, ret.AbsoluteDeadline)]

\* A Load that would take a record for expired at its deadline already
MemLoadStrict(m, id, t) ==
  LET inMap == id \in DOMAIN m
      ret == IF inMap THEN m[id] ELSE ZeroRecord
  IN  [ret |-> ret, found |-> inMap /\ Before(t, ret.IdleDeadline)]

\* memoryStore.Load: *ret, found = s.m[id]; expired counts as not found
MemLoad(m, id, t) ==
  LET inMap == id \in DOMAIN m
      ret == IF inMap THEN m[id] ELSE ZeroRecord
  IN  [ret |-> ret, found |-> inMap /\ ~After(t, ret.IdleDeadline)]

\* A Save that would not overwrite a record already stored
MemSaveKeepsOld(m, r, t) ==
  IF After(t, r.IdleDeadline) \/ r.ID \in DOMAIN m THEN m
  ELSE [x \in DOMAIN m \cup {r.ID} |-> IF x = r.ID THEN r ELSE m[x]]

\* A Save that would store a record whose idle deadline has passed
MemSaveStoresExpired(m, r, t) ==
  [x \in DOMAIN m \cup {r.ID} |-> IF x = r.ID THEN r ELSE m[x]]

\* memoryStore.Save: a record already expired is silently dropped
MemSave(m, r, t) ==
  IF After(t, r.IdleDeadline) THEN m
  ELSE [x \in DOMAIN m \cup {r.ID} |-> IF x = r.ID THEN r ELSE m[x]]

\* A Delete that would empty the map
MemDeleteClears(m, id) == << >>

\* memoryStore.Delete
MemDelete(m, id) == [x \in DOMAIN m \ {id} |-> m[x]]

\* A DeleteExpired that would go by the absolute deadline
MemDeleteExpiredAbsolute(m, t) ==
  [x \in {y \in DOMAIN m : ~After(t, m[y].AbsoluteDeadline)} |-> m[x]]

\* memoryStore.DeleteExpired: every record whose idle deadline has passed at
\* the one reading of the clock is deleted
MemDeleteExpired(m, t) ==
  [x \in {y \in DOMAIN m : ~After(t, m[y].IdleDeadline)} |-> m[x]]

\* A !found branch that would give the record a new ID and absolute deadline
\* but keep what Load left in it
InitRecordKeepsLoaded(r, id, t) ==
  [r EXCEPT !.ID = id, !.AbsoluteDeadline = t + AbsoluteTimeout]

\* Handler, the !found branch: a fresh record
InitRecord(r, id, t) ==
  [r EXCEPT !.ID = id, !.IdleDeadline = ZeroTime,
            !.AbsoluteDeadline = t + AbsoluteTimeout, !.Session = 0]

\* A saveRecord that would slide the idle deadline without the cap
SaveDeadlineNoCap(r, t) == [r EXCEPT !.IdleDeadline = t + IdleTimeout]

\* A saveRecord that would also push the absolute deadline forward
SaveDeadlineExtends(r, t) ==
  [r EXCEPT !.IdleDeadline = t + IdleTimeout, !.AbsoluteDeadline = t + AbsoluteTimeout]

\* saveRecord, before it calls Store.Save: the idle deadline slides, capped
SaveDeadline(r, t) ==
  LET slid == [r EXCEPT !.IdleDeadline = t + IdleTimeout]
  IN  IF Before(slid.AbsoluteDeadline, slid.IdleDeadline)
      THEN [slid EXCEPT !.IdleDeadline = slid.AbsoluteDeadline]
      ELSE slid

\* setCookie / deleteCookie: the cookie added to the response
SetCookie(r, t) == [Value |-> r.ID, MaxAge |-> WholeSeconds(r.IdleDeadline - t)]
DeleteCookie == [Value |-> "", MaxAge |-> -1]

\* The state of a request goroutine before a request has been received
IdleReq ==
  [pc        |-> "idle",      \* where the request is in Handler
   cookie    |-> "",          \* the value of its single session cookie, if it has one
   rec       |-> ZeroRecord,  \* its *Record
   regID     |-> "",          \* record.ID as taken by `defer m.active.Delete(record.ID)`
   done      |-> FALSE,       \* sessionWriter.done
   failed    |-> FALSE,       \* sessionWriter.failed
   outcome   |-> "none",      \* how it got through the cookies, Load and the guard
   errCalls  |-> 0,           \* calls of m.ErrorHandler
   saveCalls |-> 0,           \* calls of Store.Save
   unheld    |-> FALSE,       \* it called the Store for an ID whose guard it did not hold
   touched   |-> FALSE,       \* the handler has called Get, Delete or Renew
   renewed   |-> FALSE,       \* a Renew of the handler has replaced the record's ID
   trig      |-> "none",      \* the record's flags when the save protocol was triggered
   cookieOut |-> << >>,       \* the Set-Cookie headers added to the response
   panicked  |-> FALSE,       \* the handler panicked
   afterDel  |-> "no",        \* "called" once the handler has called Delete,
                              \* "served" once a later Get or Read returned the payload
   bare      |-> [op |-> "none", res |-> "none"],
                              \* the latest accessor call made with the context of
                              \* the unwrapped request, and what came of it
   flushed   |-> "no"]        \* the record's flags when the handler first reached
                              \* the underlying writer through Unwrap before the
                              \* save protocol had run ("after" when it had run)

\* The request holds the guard registration for id
Holds(r, id) == req[r].pc \in {"handler", "unreg"} /\ req[r].regID = id /\ id \in active

\* A Store call for `id` by request r, noted when r does not hold the guard
StoreCall(r, id) == req[r].unheld \/ ~Holds(r, id)

\* A Store call may return an error, at most MaxFaults times in a run
Outcome(ok) ==
  /\ ~ok => faults < MaxFaults
  /\ faults' = IF ok THEN faults ELSE faults + 1

\* The clock is read d ticks after it was last read
Elapse(d) ==
  /\ now + d <= MaxTime
  /\ now' = now + d

\* The cookie values a client can present: chosen names and IDs it was sent
Presentable == KnownIDs \cup issued

\* DeleteExpiredInterval has not been called: no goroutine (pc), the context
\* not cancelled, no tick waiting in the channel of time.Tick; calls counts
\* the DeleteExpired calls made, failed is the number of the latest call
\* that returned an error, late tells that the loop has taken a tick after
\* the context was cancelled, gone is the set of IDs its calls have removed
NoCleanup ==
  [pc |-> "off", cancelled |-> FALSE, tick |-> FALSE, calls |-> 0, failed |-> 0,
   late |-> FALSE, gone |-> {}]

\* The goroutines that call the memoryStore at the same time
Callers == 1..NumCallers

\* sync.RWMutex: the writer holding it (0 for none) and the readers holding it
Unlocked == [writer |-> 0, readers |-> {}]

\* A goroutine that has not called the store yet.  Of its call it keeps the
\* arguments (op, id, rec), its reading of the clock (t), for DeleteExpired
\* the keys its range loop has produced (seen) and the entry at hand (key,
\* cur), and the results (found, ret); `at` is the map of `lin` at the
\* instant its Load took effect, `linFound` what Load returns on that map
IdleCaller ==
  [pc |-> "idle", op |-> "none", id |-> "", rec |-> ZeroRecord, t |-> ZeroTime,
   seen |-> {}, key |-> "", cur |-> ZeroRecord,
   found |-> FALSE, ret |-> ZeroRecord, at |-> << >>, linFound |-> FALSE]

\* No call of the memoryStore has been made directly.  A call is noted with
\* its arguments (id, rec), its reading of the clock (t), the map before it
\* (before) and what it returned (found, ret)
NoCall == [op |-> "none", id |-> "", rec |-> ZeroRecord, t |-> ZeroTime,
           before |-> << >>, found |-> FALSE, ret |-> ZeroRecord]
NoCalls == [last |-> NoCall, prev |-> NoCall]

Init ==
  /\ now = 1
  /\ store = << >>
  /\ active = {}
  /\ nextRand = 0
  /\ issued = {}
  /\ started = 0
  /\ faults = 0
  /\ req = [r \in Reqs |-> IdleReq]
  /\ mem = NoCalls
  /\ mu = Unlocked
  /\ callers = [c \in Callers |-> IdleCaller]
  /\ lin = << >>
  /\ cleanup = NoCleanup

\* ---- the request: SessionStore.Handler ----------------------------------

\* A Handler that would look up the first of several session cookies
StartLoadsFirst(r, cs, ok, d) ==
  /\ req[r].pc = "idle"
  /\ \A q \in Reqs : q < r => req[q].pc # "idle"
  /\ started < MaxStarts
  /\ started' = started + 1
  /\ Elapse(d)
  /\ ok
  /\ LET some == Len(cs) >= 1
         ld == IF some THEN MemLoad(store, cs[1], now')
                       ELSE [ret |-> GetRecord, found |-> FALSE]
         r2 == IF ld.found THEN ld.ret ELSE InitRecord(ld.ret, NextID, now')
     IN  /\ ~ld.found => nextRand < NumRand
         /\ req' = [req EXCEPT ![r] =
                      [@ EXCEPT !.cookie = IF Len(cs) = 1 THEN cs[1] ELSE "",
                                !.rec = r2,
                                !.outcome = IF Len(cs) > 1 THEN "manycookies"
                                            ELSE IF ld.found THEN "found"
                                            ELSE IF some THEN "notfound"
                                            ELSE "nocookie",
                                !.pc = "guard"]]
         /\ nextRand' = IF ld.found THEN nextRand ELSE nextRand + 1
  /\ UNCHANGED <<store, active, issued, faults, mem, mu, callers, lin, cleanup>>

\* A Handler that would go on with a fresh record when Load returns an error
StartIgnoresLoadError(r, cs, ok, d) ==
  /\ req[r].pc = "idle"
  /\ \A q \in Reqs : q < r => req[q].pc # "idle"
  /\ started < MaxStarts
  /\ started' = started + 1
  /\ Elapse(d)
  /\ LET one == Len(cs) = 1
         ld == IF one /\ ok THEN MemLoad(store, cs[1], now')
                            ELSE [ret |-> GetRecord, found |-> FALSE]
         r2 == IF ld.found THEN ld.ret ELSE InitRecord(ld.ret, NextID, now')
     IN  /\ IF one THEN Outcome(ok) ELSE ok /\ UNCHANGED faults
         /\ ~ld.found => nextRand < NumRand
         /\ req' = [req EXCEPT ![r] =
                      [@ EXCEPT !.cookie = IF one THEN cs[1] ELSE "",
                                !.rec = r2,
                                !.outcome = IF ~ok THEN "loaderr"
                                            ELSE IF ld.found THEN "found"
                                            ELSE IF one THEN "notfound"
                                            ELSE IF cs = << >> THEN "nocookie"
                                            ELSE "manycookies",
                                !.pc = "guard"]]
         /\ nextRand' = IF ld.found THEN nextRand ELSE nextRand + 1
  /\ UNCHANGED <<store, active, issued, mem, mu, callers, lin, cleanup>>

\* Handler up to the guard: getRecord, Store.Load for a single cookie, and a
\* fresh record when nothing valid was found.  `ok` is whether Load succeeds.
\* Request goroutines are interchangeable: the lowest free one takes the request.
Start(r, cs, ok, d) ==
  /\ req[r].pc = "idle"
  /\ \A q \in Reqs : q < r => req[q].pc # "idle"
  /\ started < MaxStarts
  /\ started' = started + 1
  /\ Elapse(d)
  /\ LET one == Len(cs) = 1
         ld == IF one THEN MemLoad(store, cs[1], now')
                      ELSE [ret |-> GetRecord, found |-> FALSE]
         r1 == IF one THEN ld.ret ELSE GetRecord
         r2 == IF ld.found THEN r1 ELSE InitRecord(r1, NextID, now')
         q0 == [req[r] EXCEPT !.cookie = IF one THEN cs[1] ELSE "",
                              !.unheld = IF one THEN StoreCall(r, cs[1]) ELSE @]
     IN  /\ IF one THEN Outcome(ok) ELSE ok /\ UNCHANGED faults
         /\ IF ~ok
            THEN /\ req' = [req EXCEPT ![r] = [q0 EXCEPT !.errCalls = @ + 1,
                                                        !.outcome = "loaderr",
                                                        !.pc = "rejected"]]
                 /\ UNCHANGED nextRand
            ELSE /\ ~ld.found => nextRand < NumRand
                 /\ req' = [req EXCEPT ![r] = [q0 EXCEPT !.rec = r2,
                                 !.outcome = IF ld.found THEN "found"
                                             ELSE IF one THEN "notfound"
                                             ELSE IF cs = << >> THEN "nocookie"
                                             ELSE "manycookies",
                                 !.pc = "guard"]]
                 /\ nextRand' = IF ld.found THEN nextRand ELSE nextRand + 1
  /\ UNCHANGED <<store, active, issued, mem, mu, callers, lin, cleanup>>

\* A guard that would let every request through
GuardAdmitsAll(r) ==
  /\ req[r].pc = "guard"
  /\ active' = active \cup {req[r].rec.ID}
  /\ req' = [req EXCEPT ![r].regID = req[r].rec.ID, ![r].pc = "handler"]
  /\ UNCHANGED <<now, store, nextRand, issued, started, faults, mem, mu, callers, lin, cleanup>>

\* m.active.LoadOrStore(record.ID): register, or call ErrorHandler and return
Guard(r) ==
  /\ req[r].pc = "guard"
  /\ IF req[r].rec.ID \in active
     THEN /\ req' = [req EXCEPT ![r].errCalls = @ + 1,
                                ![r].outcome = "conflict",
                                ![r].pc = "rejected"]
          /\ UNCHANGED active
     ELSE /\ active' = active \cup {req[r].rec.ID}
          /\ req' = [req EXCEPT ![r].regID = req[r].rec.ID,
                                ![r].pc = "handler"]
  /\ UNCHANGED <<now, store, nextRand, issued, started, faults, mem, mu, callers, lin, cleanup>>

\* A panic unwinds Handler: the deferred active.Delete and putRecord still run
PanicOut(q) == [q EXCEPT !.pc = "unreg", !.panicked = TRUE]

\* SessionStore.Get; the handler may increment the counter through the
\* pointer, as long as the counter is below cap
GetN(r, inc, cap) ==
  /\ req[r].pc = "handler"
  /\ LET q == [req[r] EXCEPT !.touched = TRUE]
     IN  req' = [req EXCEPT ![r] =
                   IF q.rec.deleted
                   THEN PanicOut(q)
                   ELSE [q EXCEPT !.rec.readOnly = FALSE,
                                  !.rec.Session = IF inc /\ @ < cap THEN @ + 1 ELSE @,
                                  !.afterDel = IF @ = "called" THEN "served" ELSE @]]
  /\ UNCHANGED <<now, store, active, nextRand, issued, started, faults, mem, mu, callers, lin, cleanup>>

\* SessionStore.Get with the counter kept within the payload bound
Get(r, inc) == GetN(r, inc, MaxN)

\* SessionStore.Read
Read(r) ==
  /\ req[r].pc = "handler"
  /\ req' = [req EXCEPT ![r] =
                IF @.rec.deleted
                THEN PanicOut(@)
                ELSE [@ EXCEPT !.afterDel = IF @ = "called" THEN "served" ELSE @]]
  /\ UNCHANGED <<now, store, active, nextRand, issued, started, faults, mem, mu, callers, lin, cleanup>>

\* A Delete that would only set the flag and leave the Store alone
DeleteFlagOnly(r, ok) ==
  /\ req[r].pc = "handler"
  /\ ok
  /\ req' = [req EXCEPT ![r].touched = TRUE, ![r].rec.deleted = TRUE,
                         ![r].afterDel = IF @ = "served" THEN @ ELSE "called"]
  /\ UNCHANGED <<now, store, active, nextRand, issued, started, faults, mem, mu, callers, lin, cleanup>>

\* A Delete that would set the flag before it calls the Store
DeleteMarksFirst(r, ok) ==
  /\ req[r].pc = "handler"
  /\ Outcome(ok)
  /\ req' = [req EXCEPT ![r].touched = TRUE, ![r].rec.deleted = TRUE,
                         ![r].unheld = StoreCall(r, req[r].rec.ID),
                         ![r].afterDel = IF @ = "served" THEN @ ELSE "called"]
  /\ store' = IF ok THEN MemDelete(store, req[r].rec.ID) ELSE store
  /\ UNCHANGED <<now, active, nextRand, issued, started, mem, mu, callers, lin, cleanup>>

\* SessionStore.Delete: Store.Delete(r.ID), then the deleted flag
Delete(r, ok) ==
  /\ req[r].pc = "handler"
  /\ Outcome(ok)
  /\ LET q == [req[r] EXCEPT !.touched = TRUE, !.unheld = StoreCall(r, req[r].rec.ID),
                             !.afterDel = IF @ = "served" THEN @ ELSE "called"]
     IN  IF ok
         THEN /\ store' = MemDelete(store, q.rec.ID)
              /\ req' = [req EXCEPT ![r] = [q EXCEPT !.rec.deleted = TRUE]]
         ELSE /\ req' = [req EXCEPT ![r] = q]
              /\ UNCHANGED store
  /\ UNCHANGED <<now, active, nextRand, issued, started, mem, mu, callers, lin, cleanup>>

\* "It is caller's responsibility to choose a unique id": an ID that no stored
\* session, no registration and no request's record carries
Unique(id) ==
  /\ id \notin DOMAIN store
  /\ id \notin active
  /\ \A q \in Reqs : req[q].rec.ID # id

\* SessionStore.Renew(ctx, id): Store.Delete(r.ID), then a new ID (rand.Text()
\* for id = "") and a new absolute deadline
Renew(r, id, ok, d) ==
  /\ req[r].pc = "handler"
  /\ id # "" => Unique(id)
  /\ Outcome(ok)
  /\ Elapse(d)
  /\ LET q == [req[r] EXCEPT !.touched = TRUE, !.unheld = StoreCall(r, req[r].rec.ID)]
     IN  IF ok
         THEN /\ id = "" => nextRand < NumRand
              /\ store' = MemDelete(store, q.rec.ID)
              /\ req' = [req EXCEPT ![r] =
                           [q EXCEPT !.rec.ID = IF id = "" THEN NextID ELSE id,
                                     !.rec.AbsoluteDeadline = now' + AbsoluteTimeout,
                                     !.rec.readOnly = FALSE,
                                     !.renewed = TRUE]]
              /\ nextRand' = IF id = "" THEN nextRand + 1 ELSE nextRand
         ELSE /\ req' = [req EXCEPT ![r] = q]
              /\ UNCHANGED <<store, nextRand>>
  /\ UNCHANGED <<active, issued, started, mem, mu, callers, lin, cleanup>>

\* sessionWriter.Write and sessionWriter.WriteHeader share their body: panic
\* after a failure; on the first call run the save protocol (deleteCookie for a
\* deleted record, saveRecord + setCookie for one that is not read-only), then
\* pass the call on to the underlying ResponseWriter.  `ok` is whether
\* Store.Save succeeds; saveRecord reads the clock d ticks after its last
\* reading, setCookie reads it again dc ticks later.
WriterCall(r, ok, d, dc) ==
  /\ req[r].pc = "handler"
  /\ LET q == req[r]
         saving == ~q.failed /\ ~q.done /\ ~q.rec.deleted /\ ~q.rec.readOnly
         ts == now + d
         tc == IF saving /\ ok THEN ts + dc ELSE ts
         sr == SaveDeadline(q.rec, ts)
     IN  /\ ~(saving /\ ok) => dc = 0
         /\ tc <= MaxTime
         /\ now' = tc
         /\ IF saving THEN Outcome(ok) ELSE ok /\ UNCHANGED faults
         /\ IF q.failed
            THEN /\ req' = [req EXCEPT ![r] = PanicOut(q)]
                 /\ UNCHANGED <<store, issued>>
            ELSE IF q.done
            THEN UNCHANGED <<req, store, issued>>
            ELSE IF q.rec.deleted
            THEN /\ req' = [req EXCEPT ![r] =
                              [q EXCEPT !.cookieOut = Append(@, DeleteCookie),
                                        !.trig = "deleted",
                                        !.done = TRUE]]
                 /\ UNCHANGED <<store, issued>>
            ELSE IF ~q.rec.readOnly
            THEN LET q1 == [q EXCEPT !.rec = sr,
                                     !.saveCalls = @ + 1,
                                     !.unheld = StoreCall(r, sr.ID),
                                     !.trig = "dirty"]
                 IN  IF ok
                     THEN /\ store' = MemSave(store, sr, ts)
                          /\ issued' = issued \cup {sr.ID}
                          /\ req' = [req EXCEPT ![r] =
                                       [q1 EXCEPT !.cookieOut = Append(@, SetCookie(sr, tc)),
                                                  !.done = TRUE]]
                     ELSE /\ req' = [req EXCEPT ![r] =
                                       [q1 EXCEPT !.errCalls = @ + 1, !.failed = TRUE]]
                          /\ UNCHANGED <<store, issued>>
            ELSE /\ req' = [req EXCEPT ![r] = [q EXCEPT !.trig = "clean", !.done = TRUE]]
                 /\ UNCHANGED <<store, issued>>
  /\ UNCHANGED <<active, nextRand, started, mem, mu, callers, lin, cleanup>>

\* sessionWriter.Write
Write(r, ok, d, dc) == WriterCall(r, ok, d, dc)

\* sessionWriter.WriteHeader
WriteHeader(r, ok, d, dc) == WriterCall(r, ok, d, dc)

\* A Handler that would save on return whatever the writer has already done
ReturnSavesAgain(r, ok, d) ==
  /\ req[r].pc = "handler"
  /\ Elapse(d)
  /\ LET q == [req[r] EXCEPT !.pc = "unreg"]
         sr == SaveDeadline(q.rec, now')
         saving == ~(q.rec.readOnly \/ q.rec.deleted)
     IN  /\ IF saving THEN Outcome(ok) ELSE ok /\ UNCHANGED faults
         /\ IF saving
            THEN /\ req' = [req EXCEPT ![r] = [q EXCEPT !.rec = sr, !.saveCalls = @ + 1,
                                                       !.trig = "dirty"]]
                 /\ store' = IF ok THEN MemSave(store, sr, now') ELSE store
            ELSE /\ req' = [req EXCEPT ![r] = q]
                 /\ UNCHANGED store
  /\ UNCHANGED <<active, nextRand, issued, started, mem, mu, callers, lin, cleanup>>

\* next.ServeHTTP returns: when nothing was written, Handler saves a record
\* that is neither read-only nor deleted; a Save error is only logged
Return(r, ok, d) ==
  /\ req[r].pc = "handler"
  /\ Elapse(d)
  /\ LET q == [req[r] EXCEPT !.pc = "unreg"]
         sr == SaveDeadline(q.rec, now')
         pending == ~q.done /\ ~q.failed
         saving == pending /\ ~(q.rec.readOnly \/ q.rec.deleted)
     IN  /\ IF saving THEN Outcome(ok) ELSE ok /\ UNCHANGED faults
         /\ IF saving
            THEN /\ req' = [req EXCEPT ![r] =
                              [q EXCEPT !.rec = sr,
                                        !.saveCalls = @ + 1,
                                        !.unheld = StoreCall(r, sr.ID),
                                        !.trig = "dirty"]]
                 /\ store' = IF ok THEN MemSave(store, sr, now') ELSE store
            ELSE /\ req' = [req EXCEPT ![r] =
                              IF pending
                              THEN [q EXCEPT !.trig = IF q.rec.deleted THEN "deleted"
                                                                      ELSE "clean"]
                              ELSE q]
                 /\ UNCHANGED store
  /\ UNCHANGED <<active, nextRand, issued, started, mem, mu, callers, lin, cleanup>>

\* A Handler that would leave its registration behind
FinishKeepsGuard(r) ==
  /\ req[r].pc \in {"unreg", "rejected"}
  /\ req' = [req EXCEPT ![r] = IdleReq]
  /\ UNCHANGED <<now, store, active, nextRand, issued, started, faults, mem, mu, callers, lin, cleanup>>

\* A Handler whose deferred active.Delete would also run for a request that
\* the guard turned away
FinishAlwaysUnregisters(r) ==
  /\ req[r].pc \in {"unreg", "rejected"}
  /\ active' = active \ {IF req[r].pc = "unreg" THEN req[r].regID ELSE req[r].rec.ID}
  /\ req' = [req EXCEPT ![r] = IdleReq]
  /\ UNCHANGED <<now, store, nextRand, issued, started, faults, mem, mu, callers, lin, cleanup>>

\* The deferred calls run and the request is over: m.active.Delete(record.ID)
\* when the request got past the guard, and putRecord
Finish(r) ==
  /\ req[r].pc \in {"unreg", "rejected"}
  /\ active' = IF req[r].pc = "unreg" THEN active \ {req[r].regID} ELSE active
  /\ req' = [req EXCEPT ![r] = IdleReq]
  /\ UNCHANGED <<now, store, nextRand, issued, started, faults, mem, mu, callers, lin, cleanup>>

\* The context of the request carries the record: Handler puts it there
\* (newContextWithRecord) just before it calls the wrapped handler
InContext(r) == req[r].pc = "handler"

\* A recordFromContext that would hand out a record whatever the context holds
RecordFromContextNoCheck(r) == [panic |-> FALSE, rec |-> req[r].rec]

\* SessionStore.recordFromContext: the record of the context, or a panic when
\* the context carries none
RecordFromContext(r) == [panic |-> ~InContext(r), rec |-> req[r].rec]

\* The accessors of SessionStore
AccessorOps == {"Get", "Read", "Delete", "Renew"}

\* An accessor is called with the context of a request that Handler has not
\* wrapped: recordFromContext comes first in each accessor, and only with a
\* record would Get and Read return the payload and Delete and Renew call
\* Store.Delete
Bare(r, op) ==
  /\ req[r].pc = "idle"
  /\ LET c == RecordFromContext(r)
     IN  IF c.panic
         THEN /\ req' = [req EXCEPT ![r].bare = [op |-> op, res |-> "panic"]]
              /\ UNCHANGED store
         ELSE IF op \in {"Get", "Read"}
         THEN /\ req' = [req EXCEPT ![r].bare = [op |-> op, res |-> "payload"]]
              /\ UNCHANGED store
         ELSE /\ req' = [req EXCEPT ![r].bare = [op |-> op, res |-> "store"]]
              /\ store' = MemDelete(store, c.rec.ID)
  /\ UNCHANGED <<now, active, nextRand, issued, started, faults, mem, mu, callers, lin, cleanup>>

\* sessionWriter.Unwrap: http.NewResponseController(w).Flush() finds no Flush
\* on the sessionWriter, unwraps it and flushes the underlying writer, which
\* commits the response header
Flush(r) ==
  /\ req[r].pc = "handler"
  /\ req' = [req EXCEPT ![r].flushed =
                IF @ # "no" THEN @
                ELSE IF req[r].done \/ req[r].failed THEN "after"
                ELSE IF req[r].rec.deleted THEN "deleted"
                ELSE IF ~req[r].rec.readOnly THEN "dirty"
                ELSE "clean"]
  /\ UNCHANGED <<now, store, active, nextRand, issued, started, faults, mem, mu, callers, lin, cleanup>>

\* The ticks that may pass between two reads of the clock
Elapsed == 0..(MaxTime - 1)

\* The session cookies of a request: none, one, or two with the same name
CookieChoices ==
  {<< >>} \cup {<<c>> : c \in Presentable}
          \cup {<<c1, c2>> : c1 \in Presentable, c2 \in Presentable}

\* One step of the program, for request goroutines R, with DS the ticks that
\* may pass before a request arrives, DH the ticks that may pass before a
\* later read of the clock within a request, and OK the results (success,
\* failure) a Store call may have
Step(R, DS, DH, OK) ==
  \/ \E r \in R, cs \in CookieChoices, ok \in OK, d \in DS : Start(r, cs, ok, d)
  \/ \E r \in R : Guard(r)
  \/ \E r \in R, inc \in BOOLEAN : Get(r, inc)
  \/ \E r \in R : Read(r)
  \/ \E r \in R, ok \in OK : Delete(r, ok)
  \/ \E r \in R, id \in KnownIDs \cup {""}, ok \in OK, d \in DH : Renew(r, id, ok, d)
  \/ \E r \in R, ok \in OK, d \in DH, dc \in DH : Write(r, ok, d, dc)
  \/ \E r \in R, ok \in OK, d \in DH, dc \in DH : WriteHeader(r, ok, d, dc)
  \/ \E r \in R, ok \in OK, d \in DH : Return(r, ok, d)
  \/ \E r \in R : Finish(r)

\* Requests overlap, and any Store call may fail; the requests of one run are
\* served within one tick of the clock
Next == Step(Reqs, {0}, {0}, BOOLEAN)

Spec == Init /\ [][Next]_vars

\* Requests are served one after another while the clock advances, between
\* requests and between the clock reads of one request; the Store does not fail
NextTimed == Step({1}, Elapsed, Elapsed, {TRUE})

SpecTimed == Init /\ [][NextTimed]_vars

\* The cookie a client sends that got its cookie from the previous response
ChainCookies == IF issued = {} THEN {<< >>} ELSE {<<c>> : c \in issued}

\* One client, one request after another: each request presents the cookie of
\* the previous response before the session has expired, and its handler
\* increments the counter through Get once, writes the response and returns.
\* The clock advances between the requests.
NextChain ==
  \/ \E cs \in ChainCookies, d \in Elapsed :
       /\ cs # << >> => MemLoad(store, cs[1], now + d).found
       /\ Start(1, cs, TRUE, d)
  \/ Guard(1)
  \/ ~req[1].touched /\ GetN(1, TRUE, MaxStarts)
  \/ req[1].touched /\ ~req[1].done /\ Write(1, TRUE, 0, 0)
  \/ req[1].touched /\ ~req[1].done /\ WriteHeader(1, TRUE, 0, 0)
  \/ req[1].done /\ Return(1, TRUE, 0)
  \/ Finish(1)

SpecChain == Init /\ [][NextChain]_vars

\* Two overlapping requests of clients that present the cookie of an earlier
\* response: each handler increments the counter through Get once, then
\* writes the response or returns.  The Store does not fail, the clock stands.
NextRace ==
  \/ \E r \in Reqs, cs \in ChainCookies : Start(r, cs, TRUE, 0)
  \/ \E r \in Reqs : Guard(r)
  \/ \E r \in Reqs : ~req[r].touched /\ GetN(r, TRUE, MaxStarts)
  \/ \E r \in Reqs : req[r].touched /\ ~req[r].done /\ Write(r, TRUE, 0, 0)
  \/ \E r \in Reqs : req[r].touched /\ Return(r, TRUE, 0)
  \/ \E r \in Reqs : Finish(r)

SpecRace == Init /\ [][NextRace]_vars

\* One request at a time, any Store call of which may fail, whose handler may
\* flush the response through an http.ResponseController at any point
NextFlush ==
  \/ Step({1}, {0}, {0}, BOOLEAN)
  \/ Flush(1)

SpecFlush == Init /\ [][NextFlush]_vars

\* One request at a time, any Store call of which may fail, with accessor
\* calls made outside Handler, where the request's context is not wrapped
NextBare ==
  \/ Step({1}, {0}, {0}, BOOLEAN)
  \/ \E op \in AccessorOps : Bare(1, op)

SpecBare == Init /\ [][NextBare]_vars

\* ---- the memoryStore on its own ------------------------------------------

\* Bounds of the records and maps the store is called with
MaxIdle == 3          \* latest idle deadline of a record the store is given

\* IDs the store is called with
MemIDs == {"known", RandName(1)}

\* Records a caller saves; the ones a map holds at the start have payload 0
MemRecords(sessions) ==
  {[ZeroRecord EXCEPT !.ID = id, !.IdleDeadline = i, !.AbsoluteDeadline = a,
                      !.Session = n] :
     id \in MemIDs, i \in 0..MaxIdle, a \in {MaxIdle, MaxIdle + 1}, n \in sessions}

\* The maps the store may hold at the start: under each ID nothing, or a
\* record with that ID
MemMaps ==
  {m \in UNION {[D -> MemRecords({0})] : D \in SUBSET MemIDs} :
     \A id \in DOMAIN m : m[id].ID = id /\ m[id].AbsoluteDeadline = MaxIdle + 1}

\* newMemoryStore with a map filled as the store's tests fill it (testStore)
InitStore ==
  /\ now \in 1..2
  /\ store \in MemMaps
  /\ active = {}
  /\ nextRand = 0
  /\ issued = {}
  /\ started = 0
  /\ faults = 0
  /\ req = [r \in Reqs |-> IdleReq]
  /\ mem = NoCalls
  /\ mu = Unlocked
  /\ callers = [c \in Callers |-> IdleCaller]
  /\ lin = << >>
  /\ cleanup = NoCleanup

\* A direct call is noted as the latest one, after d ticks
Called(c, d) ==
  /\ mem.prev.op = "none"
  /\ d \in {0, 1}
  /\ Elapse(d)
  /\ mem' = [last |-> c, prev |-> mem.last]
  /\ UNCHANGED <<active, nextRand, issued, started, faults, req, mu, callers, lin, cleanup>>

\* memoryStore.Load(ctx, id, ret)
StoreLoad(id, d) ==
  /\ Called([NoCall EXCEPT !.op = "Load", !.id = id, !.t = now + d, !.before = store,
                          !.found = MemLoad(store, id, now + d).found,
                          !.ret = MemLoad(store, id, now + d).ret], d)
  /\ UNCHANGED store

\* memoryStore.Save(ctx, r)
StoreSave(r, d) ==
  /\ Called([NoCall EXCEPT !.op = "Save", !.id = r.ID, !.rec = r, !.t = now + d,
                          !.before = store], d)
  /\ store' = MemSave(store, r, now + d)

\* memoryStore.Delete(ctx, id)
StoreDelete(id, d) ==
  /\ Called([NoCall EXCEPT !.op = "Delete", !.id = id, !.t = now + d,
                          !.before = store], d)
  /\ store' = MemDelete(store, id)

\* memoryStore.DeleteExpired(ctx)
StoreDeleteExpired(d) ==
  /\ Called([NoCall EXCEPT !.op = "DeleteExpired", !.t = now + d, !.before = store], d)
  /\ store' = MemDeleteExpired(store, now + d)

\* Two calls of the store, one after the other, on any map
NextStore ==
  \/ \E id \in MemIDs, d \in {0, 1} : StoreLoad(id, d)
  \/ \E r \in MemRecords({1}), d \in {0, 1} : StoreSave(r, d)
  \/ \E id \in MemIDs, d \in {0, 1} : StoreDelete(id, d)
  \/ \E d \in {0, 1} : StoreDeleteExpired(d)

SpecStore == InitStore /\ [][NextStore]_vars

\* ---- the memoryStore under concurrent calls ------------------------------

\* A Lock that would not wait for anyone
CanLockAlways(m) == TRUE

\* mu.Lock() returns once no goroutine holds the mutex
CanLock(m) == m.writer = 0 /\ m.readers = {}

\* mu.RLock() returns once no writer holds the mutex
CanRLock(m) == m.writer = 0

\* The records the concurrent callers save
ConcRecords == {r \in MemRecords({1}) : r.AbsoluteDeadline = MaxIdle + 1}

\* What a step of caller c leaves alone besides the variables it names
CallerStep(c, q) ==
  /\ callers' = [callers EXCEPT ![c] = q]
  /\ UNCHANGED <<now, active, nextRand, issued, started, faults, req, mem, cleanup>>

\* Load: s.mu.RLock()
LoadRLock(c, id) ==
  /\ callers[c].pc = "idle"
  /\ CanRLock(mu)
  /\ mu' = [mu EXCEPT !.readers = @ \cup {c}]
  /\ CallerStep(c, [callers[c] EXCEPT !.pc = "l_read", !.op = "Load", !.id = id])
  /\ UNCHANGED <<store, lin>>

\* Load: *ret, found = s.m[id]
LoadRead(c) ==
  /\ callers[c].pc = "l_read"
  /\ LET q == callers[c]
         inMap == q.id \in DOMAIN store
     IN  CallerStep(c, [q EXCEPT !.pc = "l_time",
                                 !.ret = IF inMap THEN store[q.id] ELSE ZeroRecord,
                                 !.found = inMap,
                                 !.at = lin])
  /\ UNCHANGED <<store, mu, lin>>

\* Load: if !found || time.Now().After(ret.IdleDeadline)
LoadCheck(c) ==
  /\ callers[c].pc = "l_time"
  /\ LET q == callers[c]
     IN  CallerStep(c, [q EXCEPT !.pc = "l_unlock",
                                 !.t = now,
                                 !.found = q.found /\ ~After(now, q.ret.IdleDeadline),
                                 !.linFound = MemLoad(q.at, q.id, now).found])
  /\ UNCHANGED <<store, mu, lin>>

\* Load: the deferred s.mu.RUnlock()
LoadRUnlock(c) ==
  /\ callers[c].pc = "l_unlock"
  /\ mu' = [mu EXCEPT !.readers = @ \ {c}]
  /\ CallerStep(c, [callers[c] EXCEPT !.pc = "done"])
  /\ UNCHANGED <<store, lin>>

\* Save: if time.Now().After(r.IdleDeadline) { return nil }, before the lock
SaveCheck(c, r) ==
  /\ callers[c].pc = "idle"
  /\ CallerStep(c, [callers[c] EXCEPT !.op = "Save", !.id = r.ID, !.rec = r, !.t = now,
                                      !.pc = IF After(now, r.IdleDeadline)
                                             THEN "done" ELSE "s_lock"])
  /\ UNCHANGED <<store, mu, lin>>

\* Save: s.mu.Lock()
SaveLock(c) ==
  /\ callers[c].pc = "s_lock"
  /\ CanLock(mu)
  /\ mu' = [mu EXCEPT !.writer = c]
  /\ CallerStep(c, [callers[c] EXCEPT !.pc = "s_write"])
  /\ UNCHANGED <<store, lin>>

\* Save: s.m[r.ID] = *r
SaveWrite(c) ==
  /\ callers[c].pc = "s_write"
  /\ LET r == callers[c].rec
     IN  /\ store' = [x \in DOMAIN store \cup {r.ID} |-> IF x = r.ID THEN r ELSE store[x]]
         /\ lin' = MemSave(lin, r, callers[c].t)
  /\ CallerStep(c, [callers[c] EXCEPT !.pc = "unlock"])
  /\ UNCHANGED mu

\* Delete: s.mu.Lock()
DeleteLock(c, id) ==
  /\ callers[c].pc = "idle"
  /\ CanLock(mu)
  /\ mu' = [mu EXCEPT !.writer = c]
  /\ CallerStep(c, [callers[c] EXCEPT !.pc = "d_write", !.op = "Delete", !.id = id])
  /\ UNCHANGED <<store, lin>>

\* Delete: delete(s.m, id)
DeleteWrite(c) ==
  /\ callers[c].pc = "d_write"
  /\ store' = [x \in DOMAIN store \ {callers[c].id} |-> store[x]]
  /\ lin' = MemDelete(lin, callers[c].id)
  /\ CallerStep(c, [callers[c] EXCEPT !.pc = "unlock"])
  /\ UNCHANGED mu

\* DeleteExpired: s.mu.Lock()
ExpiredLock(c) ==
  /\ callers[c].pc = "idle"
  /\ CanLock(mu)
  /\ mu' = [mu EXCEPT !.writer = c]
  /\ CallerStep(c, [callers[c] EXCEPT !.pc = "e_now", !.op = "DeleteExpired"])
  /\ UNCHANGED <<store, lin>>

\* DeleteExpired: now := time.Now()
ExpiredNow(c) ==
  /\ callers[c].pc = "e_now"
  /\ lin' = MemDeleteExpired(lin, now)
  /\ CallerStep(c, [callers[c] EXCEPT !.pc = "e_loop", !.t = now])
  /\ UNCHANGED <<store, mu>>

\* DeleteExpired: for id, r := range s.m, the next entry in any order
ExpiredNext(c, x) ==
  /\ callers[c].pc = "e_loop"
  /\ x \in DOMAIN store \ callers[c].seen
  /\ CallerStep(c, [callers[c] EXCEPT !.pc = "e_check", !.key = x, !.cur = store[x],
                                      !.seen = @ \cup {x}])
  /\ UNCHANGED <<store, mu, lin>>

\* DeleteExpired: if now.After(r.IdleDeadline) { delete(s.m, id) }
ExpiredCheck(c) ==
  /\ callers[c].pc = "e_check"
  /\ LET q == callers[c]
     IN  /\ store' = IF After(q.t, q.cur.IdleDeadline)
                     THEN [x \in DOMAIN store \ {q.key} |-> store[x]]
                     ELSE store
         /\ CallerStep(c, [q EXCEPT !.pc = "e_loop"])
  /\ UNCHANGED <<mu, lin>>

\* DeleteExpired: the range loop is over
ExpiredDone(c) ==
  /\ callers[c].pc = "e_loop"
  /\ DOMAIN store \subseteq callers[c].seen
  /\ CallerStep(c, [callers[c] EXCEPT !.pc = "unlock"])
  /\ UNCHANGED <<store, mu, lin>>

\* Save, Delete, DeleteExpired: s.mu.Unlock()
Unlock(c) ==
  /\ callers[c].pc = "unlock"
  /\ mu' = [mu EXCEPT !.writer = 0]
  /\ CallerStep(c, [callers[c] EXCEPT !.pc = "done"])
  /\ UNCHANGED <<store, lin>>

\* The clock moves on while the calls are under way
ClockTick ==
  /\ now < MaxIdle + 1
  /\ now' = now + 1
  /\ UNCHANGED <<store, active, nextRand, issued, started, faults, req, mem, mu,
                 callers, lin, cleanup>>

\* A map as in the store's tests, and goroutines that each make one call
InitConc ==
  /\ now = 1
  /\ store \in MemMaps
  /\ active = {}
  /\ nextRand = 0
  /\ issued = {}
  /\ started = 0
  /\ faults = 0
  /\ req = [r \in Reqs |-> IdleReq]
  /\ mem = NoCalls
  /\ mu = Unlocked
  /\ callers = [c \in Callers |-> IdleCaller]
  /\ lin = store
  /\ cleanup = NoCleanup

NextConc ==
  \/ \E c \in Callers, id \in MemIDs : LoadRLock(c, id)
  \/ \E c \in Callers : LoadRead(c)
  \/ \E c \in Callers : LoadCheck(c)
  \/ \E c \in Callers : LoadRUnlock(c)
  \/ \E c \in Callers, r \in ConcRecords : SaveCheck(c, r)
  \/ \E c \in Callers : SaveLock(c)
  \/ \E c \in Callers : SaveWrite(c)
  \/ \E c \in Callers, id \in MemIDs : DeleteLock(c, id)
  \/ \E c \in Callers : DeleteWrite(c)
  \/ \E c \in Callers : ExpiredLock(c)
  \/ \E c \in Callers : ExpiredNow(c)
  \/ \E c \in Callers, x \in MemIDs : ExpiredNext(c, x)
  \/ \E c \in Callers : ExpiredCheck(c)
  \/ \E c \in Callers : ExpiredDone(c)
  \/ \E c \in Callers : Unlock(c)
  \/ ClockTick

SpecConc == InitConc /\ [][NextConc]_vars

\* ---- the cleanup task: DeleteExpiredInterval ----------------------------

\* A cleanup loop that would give up when DeleteExpired returns an error
CleanupCallStops(ok) ==
  /\ cleanup.pc = "call"
  /\ Outcome(ok)
  /\ store' = IF ok THEN MemDeleteExpired(store, now) ELSE store
  /\ cleanup' = [cleanup EXCEPT !.pc = IF ok THEN "select" ELSE "exited",
                                !.calls = @ + 1,
                                !.failed = IF ok THEN @ ELSE cleanup.calls + 1,
                                !.gone = @ \cup (DOMAIN store \ DOMAIN store')]
  /\ UNCHANGED <<now, active, nextRand, issued, started, req, mem, mu, callers, lin>>

\* A cleanup loop that would take its ticks without calling the Store
CleanupCallIdle(ok) ==
  /\ cleanup.pc = "call"
  /\ Outcome(ok)
  /\ cleanup' = [cleanup EXCEPT !.pc = "select",
                                !.calls = @ + 1,
                                !.failed = IF ok THEN @ ELSE cleanup.calls + 1]
  /\ UNCHANGED <<now, store, active, nextRand, issued, started, req, mem, mu, callers, lin>>

\* What a step of the cleanup task or of its surroundings leaves alone
CleanupStep ==
  UNCHANGED <<store, active, nextRand, issued, started, faults, req, mem, mu,
              callers, lin>>

\* DeleteExpiredInterval(ctx, interval): go cleanup(), which calls time.Tick
\* and enters the loop
CleanupStart ==
  /\ cleanup.pc = "off"
  /\ cleanup' = [cleanup EXCEPT !.pc = "select"]
  /\ UNCHANGED now
  /\ CleanupStep

\* The interval has passed: the ticker puts a tick into its channel, which
\* holds one; a tick that finds the channel full is dropped
TickerFires ==
  /\ cleanup.pc \in {"select", "call"}
  /\ Elapse(1)
  /\ cleanup' = [cleanup EXCEPT !.tick = TRUE]
  /\ CleanupStep

\* The caller cancels the context: ctx.Done() is closed
Cancel ==
  /\ ~cleanup.cancelled
  /\ cleanup' = [cleanup EXCEPT !.cancelled = TRUE]
  /\ UNCHANGED now
  /\ CleanupStep

\* select, case <-c: chosen whenever a tick is waiting, whether or not
\* ctx.Done() is ready as well (select chooses among the ready cases at random)
CleanupSelectTick ==
  /\ cleanup.pc = "select"
  /\ cleanup.tick
  /\ cleanup' = [cleanup EXCEPT !.pc = "call", !.tick = FALSE,
                                !.late = @ \/ cleanup.cancelled]
  /\ UNCHANGED now
  /\ CleanupStep

\* m.Store.DeleteExpired(ctx); an error is logged and the loop goes on
CleanupCall(ok) ==
  /\ cleanup.pc = "call"
  /\ Outcome(ok)
  /\ store' = IF ok THEN MemDeleteExpired(store, now) ELSE store
  /\ cleanup' = [cleanup EXCEPT !.pc = "select",
                                !.calls = @ + 1,
                                !.failed = IF ok THEN @ ELSE cleanup.calls + 1,
                                !.gone = @ \cup (DOMAIN store \ DOMAIN store')]
  /\ UNCHANGED <<now, active, nextRand, issued, started, req, mem, mu, callers, lin>>

\* select, case <-ctx.Done(): return
CleanupSelectDone ==
  /\ cleanup.pc = "select"
  /\ cleanup.cancelled
  /\ cleanup' = [cleanup EXCEPT !.pc = "exited"]
  /\ UNCHANGED now
  /\ CleanupStep

\* A store as in the store's tests, before DeleteExpiredInterval is called
InitCleanup ==
  /\ now = 1
  /\ store \in MemMaps
  /\ active = {}
  /\ nextRand = 0
  /\ issued = {}
  /\ started = 0
  /\ faults = 0
  /\ req = [r \in Reqs |-> IdleReq]
  /\ mem = NoCalls
  /\ mu = Unlocked
  /\ callers = [c \in Callers |-> IdleCaller]
  /\ lin = << >>
  /\ cleanup = NoCleanup

NextCleanup ==
  \/ CleanupStart
  \/ TickerFires
  \/ Cancel
  \/ CleanupSelectTick
  \/ \E ok \in BOOLEAN : CleanupCall(ok)
  \/ CleanupSelectDone

\* The goroutine is scheduled: it starts, a DeleteExpired call returns, and a
\* select with a ready case takes one; the case ctx.Done() that stays ready
\* is taken sooner or later, select choosing at random
SpecCleanup ==
  /\ InitCleanup
  /\ [][NextCleanup]_vars
  /\ WF_vars(CleanupStart)
  /\ WF_vars(\E ok \in BOOLEAN : CleanupCall(ok))
  /\ WF_vars(CleanupSelectTick)
  /\ SF_vars(CleanupSelectDone)

\* ---- the sqlite3store and the record pool --------------------------------

\* The payload type T is a map[string]int here: nil, or a map over Keys
Keys == {"a", "b"}
Vals == {1}
ZeroPayload == [nil |-> TRUE, m |-> << >>]
Payloads ==
  {ZeroPayload} \cup {[nil |-> FALSE, m |-> f] : f \in UNION {[S -> Vals] : S \in SUBSET Keys}}

\* json.Marshal of the payload: null for a nil map, else an object, the set of
\* its key/value pairs
JsonMarshal(p) ==
  IF p.nil THEN [null |-> TRUE, obj |-> {}]
  ELSE [null |-> FALSE, obj |-> {<<k, p.m[k]>> : k \in DOMAIN p.m}]

\* json.Unmarshal(buf, &old): null sets the map to nil; an object is stored
\* into the map that is there (a new one when it is nil), whose other entries
\* stay
JsonUnmarshal(buf, old) ==
  IF buf.null THEN ZeroPayload
  ELSE LET ks == {kv[1] : kv \in buf.obj}
       IN  [nil |-> FALSE,
            m |-> [k \in DOMAIN old.m \cup ks |->
                     IF k \in ks THEN (CHOOSE kv \in buf.obj : kv[1] = k)[2]
                     ELSE old.m[k]]]

\* sqlite3store.Store.Load: the row with that id whose idle_deadline is after
\* now is scanned into the ID and the deadlines of the record, and its data
\* is unmarshalled into r.Session; without such a row r is left as it is
SqlLoad(m, id, t, r) ==
  IF id \in DOMAIN m /\ m[id].IdleDeadline > t
  THEN [found |-> TRUE,
        ret |-> [r EXCEPT !.ID = m[id].ID,
                          !.IdleDeadline = m[id].IdleDeadline,
                          !.AbsoluteDeadline = m[id].AbsoluteDeadline,
                          !.Session = JsonUnmarshal(m[id].data, r.Session)]]
  ELSE [found |-> FALSE, ret |-> r]

\* sqlite3store.Store.Save: INSERT ... ON CONFLICT(id) DO UPDATE SET
\* idle_deadline, data
SqlSave(m, r) ==
  LET row == IF r.ID \in DOMAIN m
             THEN [m[r.ID] EXCEPT !.IdleDeadline = r.IdleDeadline,
                                  !.data = JsonMarshal(r.Session)]
             ELSE [ID |-> r.ID, IdleDeadline |-> r.IdleDeadline,
                   AbsoluteDeadline |-> r.AbsoluteDeadline,
                   data |-> JsonMarshal(r.Session)]
  IN  [x \in DOMAIN m \cup {r.ID} |-> IF x = r.ID THEN row ELSE m[x]]

\* recordPool.New: new(Record[T])
NewRecord == [ZeroRecord EXCEPT !.Session = ZeroPayload]

\* SessionStore.getRecord on the record p that recordPool.Get() returned
PooledRecord(p) == [p EXCEPT !.deleted = FALSE, !.readOnly = TRUE]

\* Handler up to the guard with the sqlite3store: recordPool.Get() returns a
\* new record (fresh) or the one the goroutine's previous request put back,
\* which the idle goroutine keeps in rec
SqlStart(r, cs, fresh) ==
  /\ req[r].pc = "idle"
  /\ started < MaxStarts
  /\ started' = started + 1
  /\ LET one == Len(cs) = 1
         r0 == PooledRecord(IF fresh THEN NewRecord ELSE req[r].rec)
         ld == IF one THEN SqlLoad(store, cs[1], now, r0)
                      ELSE [found |-> FALSE, ret |-> r0]
         r2 == IF ld.found THEN ld.ret
               ELSE [InitRecord(ld.ret, NextID, now) EXCEPT !.Session = ZeroPayload]
     IN  /\ ~ld.found => nextRand < NumRand
         /\ req' = [req EXCEPT ![r] =
                      [@ EXCEPT !.cookie = IF one THEN cs[1] ELSE "",
                                !.rec = r2,
                                !.outcome = IF ld.found THEN "found"
                                            ELSE IF one THEN "notfound"
                                            ELSE "nocookie",
                                !.pc = "guard"]]
         /\ nextRand' = IF ld.found THEN nextRand ELSE nextRand + 1
  /\ UNCHANGED <<now, store, active, issued, faults, mem, mu, callers, lin, cleanup>>

\* The handler calls Get and assigns the payload p through the pointer
SetPayload(r, p) ==
  /\ req[r].pc = "handler"
  /\ req' = [req EXCEPT ![r].touched = TRUE, ![r].rec.readOnly = FALSE,
                         ![r].rec.Session = p]
  /\ UNCHANGED <<now, store, active, nextRand, issued, started, faults, mem, mu, callers, lin, cleanup>>

\* sessionWriter.Write with the sqlite3store, the first write of a request
SqlWrite(r) ==
  /\ req[r].pc = "handler"
  /\ ~req[r].done
  /\ LET q == req[r]
         sr == SaveDeadline(q.rec, now)
     IN  IF ~q.rec.readOnly
         THEN /\ store' = SqlSave(store, sr)
              /\ issued' = issued \cup {sr.ID}
              /\ req' = [req EXCEPT ![r] =
                           [q EXCEPT !.rec = sr, !.saveCalls = @ + 1, !.trig = "dirty",
                                     !.cookieOut = Append(@, SetCookie(sr, now)),
                                     !.done = TRUE]]
         ELSE /\ req' = [req EXCEPT ![r] = [q EXCEPT !.trig = "clean", !.done = TRUE]]
              /\ UNCHANGED <<store, issued>>
  /\ UNCHANGED <<now, active, nextRand, started, faults, mem, mu, callers, lin, cleanup>>

\* next.ServeHTTP returns with the sqlite3store: the end-of-request save
SqlReturn(r) ==
  /\ req[r].pc = "handler"
  /\ LET q == [req[r] EXCEPT !.pc = "unreg"]
         sr == SaveDeadline(q.rec, now)
     IN  IF ~q.done /\ ~q.rec.readOnly
         THEN /\ store' = SqlSave(store, sr)
              /\ req' = [req EXCEPT ![r] =
                           [q EXCEPT !.rec = sr, !.saveCalls = @ + 1, !.trig = "dirty"]]
         ELSE /\ req' = [req EXCEPT ![r] = q]
              /\ UNCHANGED store
  /\ UNCHANGED <<now, active, nextRand, issued, started, faults, mem, mu, callers, lin, cleanup>>

\* The deferred calls: m.active.Delete(record.ID) and putRecord, which puts
\* the record back into the pool as it is
PutRecord(r) ==
  /\ req[r].pc \in {"unreg", "rejected"}
  /\ active' = IF req[r].pc = "unreg" THEN active \ {req[r].regID} ELSE active
  /\ req' = [req EXCEPT ![r] = [IdleReq EXCEPT !.rec = req[r].rec]]
  /\ UNCHANGED <<now, store, nextRand, issued, started, faults, mem, mu, callers, lin, cleanup>>

\* The rows the table may hold when the program starts: none, or one under a
\* chosen name, expired or not, with any payload
SqlTables ==
  {<< >>} \cup
  {[x \in {"known"} |-> [ID |-> "known", IdleDeadline |-> d,
                         AbsoluteDeadline |-> 1 + AbsoluteTimeout, data |-> JsonMarshal(p)]] :
     d \in {ZeroTime, 1 + IdleTimeout}, p \in Payloads}

InitPool ==
  /\ now = 1
  /\ store \in SqlTables
  /\ active = {}
  /\ nextRand = 0
  /\ issued = {}
  /\ started = 0
  /\ faults = 0
  /\ req = [r \in Reqs |-> [IdleReq EXCEPT !.rec = NewRecord]]
  /\ mem = NoCalls
  /\ mu = Unlocked
  /\ callers = [c \in Callers |-> IdleCaller]
  /\ lin = << >>
  /\ cleanup = NoCleanup

\* One request after another on the sqlite3store, with the record pool
NextPool ==
  \/ \E cs \in {<< >>} \cup {<<c>> : c \in Presentable}, fresh \in BOOLEAN :
       SqlStart(1, cs, fresh)
  \/ Guard(1)
  \/ \E p \in Payloads : SetPayload(1, p)
  \/ SqlWrite(1)
  \/ SqlReturn(1)
  \/ PutRecord(1)

SpecPool == InitPool /\ [][NextPool]_vars

\* ---- properties ----------------------------------------------------------

\* The request is past the guard: its handler runs or has run
PastGuard(r) == req[r].pc \in {"handler", "unreg"}

\* The handler of the request has left no trace of having run
HandlerNotRun(r) ==
  /\ ~req[r].touched /\ ~req[r].done /\ req[r].trig = "none"
  /\ req[r].saveCalls = 0 /\ req[r].cookieOut = << >>

Min2(a, b) == IF a <= b THEN a ELSE b

\* C1: of two overlapping requests with the same session cookie only the one
\* that registers first runs its handler: no two requests are past the guard
\* with the same registered ID, and a request that met a registered ID has its
\* ErrorHandler called exactly once, is rejected, and its handler does not run.
C1_SecondRequestRejected ==
  /\ \A r, q \in Reqs :
        r # q /\ PastGuard(r) /\ PastGuard(q) => req[r].regID # req[q].regID
  /\ \A r \in Reqs :
        req[r].outcome = "conflict" =>
          /\ req[r].pc = "rejected"
          /\ req[r].errCalls = 1
          /\ req[r].regID = ""
          /\ HandlerNotRun(r)

\* Two requests presented the same cookie; one runs its handler, the other
\* was turned away with a conflict
C1_Witness ==
  \E r, q \in Reqs :
    /\ r # q
    /\ req[r].cookie # "" /\ req[r].cookie = req[q].cookie
    /\ req[q].pc = "handler" /\ req[q].regID = req[q].cookie
    /\ req[r].outcome = "conflict" /\ req[r].errCalls = 1

\* C2: no two requests whose handlers are running hold records with the same
\* current session ID, also after a Renew.
C2_RunningIDsDistinct ==
  \A r, q \in Reqs :
    r # q /\ req[r].pc = "handler" /\ req[q].pc = "handler"
      => req[r].rec.ID # req[q].rec.ID

\* C3: no request calls the Store (Load, Save, Delete) for an ID whose guard
\* registration it does not hold.
C3_StoreCallsUnderGuard == \A r \in Reqs : ~req[r].unheld

\* C4: the registered IDs are exactly those registered by requests still in
\* flight past the guard; a request that is over, however it ended, has left
\* nothing registered, and once all are over nothing is registered.
C4_RegisteredAreInFlight ==
  /\ active = {req[r].regID : r \in {q \in Reqs : PastGuard(q)}}
  /\ (\A r \in Reqs : req[r].pc = "idle") => active = {}

\* All requests of a run are over, one of them after a Store failure, and
\* nothing is registered
C4_Witness ==
  /\ started = MaxStarts
  /\ faults > 0
  /\ \A r \in Reqs : req[r].pc = "idle"
  /\ active = {}

\* C5 as stated: a request over without a panic whose record is dirty and not
\* deleted has had Store.Save called exactly once.
C5_DirtySavedOnce ==
  \A r \in Reqs :
    req[r].pc = "unreg" /\ ~req[r].panicked
      /\ ~req[r].rec.readOnly /\ ~req[r].rec.deleted
      => req[r].saveCalls = 1

\* C5 amended: Store.Save is called exactly once when the record is dirty and
\* not deleted at the moment the save protocol is triggered (the first Write or
\* WriteHeader, or the return of a handler that wrote nothing), not at all
\* otherwise, and never a second time.
C5_SavedOnceAtTrigger ==
  \A r \in Reqs :
    /\ req[r].saveCalls <= 1
    /\ req[r].trig = "dirty" <=> req[r].saveCalls = 1
    /\ req[r].pc = "unreg" /\ ~req[r].panicked => req[r].trig # "none"

\* A handler saved at its first write and has returned: one Save in all
C5_Witness ==
  \E r \in Reqs :
    /\ req[r].pc = "unreg" /\ req[r].done /\ ~req[r].panicked
    /\ req[r].trig = "dirty" /\ req[r].saveCalls = 1

\* C6: a request whose handler called neither Get, Delete nor Renew causes no
\* Store.Save and no Set-Cookie header, whatever cookie it carried.
C6_UntouchedLeavesNoTrace ==
  \A r \in Reqs :
    PastGuard(r) /\ ~req[r].touched
      => req[r].saveCalls = 0 /\ req[r].cookieOut = << >>

\* Request r calls Store.Save in this step
SaveStep(r) == req'[r].saveCalls = req[r].saveCalls + 1

\* C7: whenever the save protocol hands a record to Store.Save, the record
\* has IdleDeadline = min(t + IdleTimeout, AbsoluteDeadline) for the time t at
\* which saveRecord read the clock, and the response gets a cookie with the
\* record's current ID and MaxAge the whole seconds of IdleDeadline - now.
C7_SaveSlidesAndSetsCookie ==
  [][\A r \in Reqs :
       SaveStep(r) =>
         LET rec == req'[r].rec IN
           /\ \E t \in now..now' :
                rec.IdleDeadline = Min2(t + IdleTimeout, rec.AbsoluteDeadline)
           /\ req'[r].cookieOut =
                <<[Value |-> rec.ID, MaxAge |-> WholeSeconds(rec.IdleDeadline - now')]>>]_vars

\* C8: every record held by a request and every stored record has
\* IdleDeadline <= AbsoluteDeadline.
C8_IdleWithinAbsolute ==
  /\ \A r \in Reqs : ~After(req[r].rec.IdleDeadline, req[r].rec.AbsoluteDeadline)
  /\ \A id \in DOMAIN store :
        ~After(store[id].IdleDeadline, store[id].AbsoluteDeadline)

\* A stored record whose idle deadline was cut down to its absolute deadline
C8_Witness ==
  \E id \in DOMAIN store :
    /\ store[id].IdleDeadline = store[id].AbsoluteDeadline
    /\ store[id].AbsoluteDeadline < now + IdleTimeout
    /\ \E r \in Reqs : req[r].rec = store[id] /\ req[r].saveCalls = 1

\* C9: the AbsoluteDeadline stored for a session ID never changes while the
\* session is stored, and the AbsoluteDeadline of a request's record changes
\* within the handler only in a Renew, which also changes the record's ID.
C9_AbsoluteDeadlineFixed ==
  [][/\ \A id \in DOMAIN store \cap DOMAIN store' :
          store'[id].AbsoluteDeadline = store[id].AbsoluteDeadline
     /\ \A r \in Reqs :
          /\ req[r].pc = "handler" /\ req'[r].pc \in {"handler", "unreg"}
          /\ req'[r].rec.AbsoluteDeadline # req[r].rec.AbsoluteDeadline
          => /\ req'[r].renewed
             /\ req'[r].rec.ID # req[r].rec.ID
             /\ req'[r].rec.AbsoluteDeadline = now' + AbsoluteTimeout]_vars

\* A request found a session created earlier, did not renew it, and saved it:
\* the stored absolute deadline is still the one of the earlier creation
C9_Witness ==
  \E r \in Reqs :
    /\ req[r].outcome = "found" /\ ~req[r].renewed /\ req[r].saveCalls = 1
    /\ req[r].rec.ID \in DOMAIN store
    /\ store[req[r].rec.ID] = req[r].rec
    /\ req[r].rec.AbsoluteDeadline < now + AbsoluteTimeout

\* C10: a request that arrives after the AbsoluteDeadline of the session its
\* cookie names does not get that session: its record is a fresh one, with a
\* new ID, an empty payload and its own absolute deadline.
C10_NoPayloadAfterAbsolute ==
  \A r \in Reqs :
    req[r].pc = "guard" =>
      /\ req[r].outcome = "found" => ~After(now, req[r].rec.AbsoluteDeadline)
      /\ /\ req[r].cookie \in DOMAIN store
         /\ After(now, store[req[r].cookie].AbsoluteDeadline)
         => /\ req[r].outcome = "notfound"
            /\ req[r].rec.ID # req[r].cookie
            /\ req[r].rec.ID \notin DOMAIN store
            /\ req[r].rec.Session = 0
            /\ req[r].rec.AbsoluteDeadline = now + AbsoluteTimeout

\* A request arrived with the cookie of a stored session that carries a
\* payload and is past its absolute deadline, and got a fresh record
C10_Witness ==
  \E r \in Reqs :
    /\ req[r].pc = "guard" /\ req[r].outcome = "notfound"
    /\ req[r].cookie \in DOMAIN store
    /\ store[req[r].cookie].Session > 0
    /\ After(now, store[req[r].cookie].AbsoluteDeadline)
    /\ req[r].rec.Session = 0

\* Request r arrives in this step and its cookie is looked up in the store
LoadStep(r) == req[r].pc = "idle" /\ req'[r].pc = "guard" /\ req'[r].cookie # ""

\* C11: a save at time t leaves the session stored with an idle expiry of
\* min(t + IdleTimeout, AbsoluteDeadline), never later than t + IdleTimeout and
\* never earlier than the expiry stored before; and a request that arrives
\* after the idle expiry stored for its cookie does not load that session.
C11_IdleExpirySlides ==
  [][/\ \A id \in DOMAIN store' :
          (id \notin DOMAIN store \/ store'[id] # store[id]) =>
            /\ \E t \in now..now' :
                 store'[id].IdleDeadline =
                   Min2(t + IdleTimeout, store'[id].AbsoluteDeadline)
            /\ id \in DOMAIN store =>
                 store'[id].IdleDeadline >= store[id].IdleDeadline
     /\ \A r \in Reqs :
          LoadStep(r) /\ req'[r].cookie \in DOMAIN store =>
            IF After(now', store[req'[r].cookie].IdleDeadline)
            THEN /\ req'[r].outcome = "notfound"
                 /\ req'[r].rec.ID # req'[r].cookie
                 /\ req'[r].rec.Session = 0
            ELSE /\ req'[r].outcome = "found"
                 /\ req'[r].rec = store[req'[r].cookie]]_vars

\* A request arrived with the cookie of a stored session after its idle expiry
\* but before its absolute deadline, and got a fresh record
C11_Witness ==
  \E r \in Reqs :
    /\ req[r].pc = "guard" /\ req[r].outcome = "notfound"
    /\ req[r].cookie \in DOMAIN store
    /\ After(now, store[req[r].cookie].IdleDeadline)
    /\ ~After(now, store[req[r].cookie].AbsoluteDeadline)
    /\ req[r].rec.ID # req[r].cookie

\* What a request whose session was deleted leaves behind: nothing stored under
\* the ID it started with nor under its record's current ID, no Store.Save, and
\* one cookie, with MaxAge = -1
DeletedOutcome(r) ==
  /\ req[r].rec.ID \notin DOMAIN store
  /\ req[r].regID \notin DOMAIN store
  /\ req[r].saveCalls = 0
  /\ req[r].cookieOut = <<DeleteCookie>>

AccessorStep(r) ==
  /\ req[r].pc = "handler" /\ req'[r].pc = "handler"
  /\ req'[r] # req[r]
  /\ req'[r].done = req[r].done
  /\ req'[r].failed = req[r].failed
  /\ req'[r].saveCalls = req[r].saveCalls

\* C13: Get, Read, Delete and Renew change only the request's record and its
\* flags; the store is the same after the call as before it.
C13_AccessorsLeaveStoreAlone ==
  [][\A r \in Reqs : AccessorStep(r) => store' = store]_vars

\* C14: a request whose handler touched the session and returned without
\* writing header or body has had the trigger logic of a first write run for
\* it: a dirty record was saved and a cookie with its ID was emitted, and a
\* deleted record got a cookie with MaxAge = -1.
C14_ReturnTriggersLikeWrite ==
  \A r \in Reqs :
    /\ req[r].pc = "unreg" /\ ~req[r].panicked
    /\ req[r].touched /\ ~req[r].done /\ ~req[r].failed
    => /\ req[r].trig = "dirty" =>
            /\ req[r].saveCalls = 1
            /\ Len(req[r].cookieOut) = 1
            /\ req[r].cookieOut[1].Value = req[r].rec.ID
       /\ req[r].trig = "deleted" => req[r].cookieOut = <<DeleteCookie>>

\* Request r arrives in this step and gets as far as the guard
ArriveStep(r) == req[r].pc = "idle" /\ req'[r].pc = "guard"

\* C15: a request that presents no cookie, a cookie whose ID is not stored, or
\* a cookie whose stored record's IdleDeadline has passed gets a fresh record:
\* a newly generated ID different from the presented one, zero payload,
\* AbsoluteDeadline = now + AbsoluteTimeout, and an IdleDeadline that stays
\* unset until the first save.
C15_FreshRecord ==
  [][\A r \in Reqs :
       /\ /\ ArriveStep(r)
          /\ \/ req'[r].cookie = ""
             \/ req'[r].cookie \notin DOMAIN store
             \/ After(now', store[req'[r].cookie].IdleDeadline)
          => /\ req'[r].outcome \in {"nocookie", "manycookies", "notfound"}
             /\ req'[r].rec.ID # req'[r].cookie
             /\ req'[r].rec.ID \in RandIDs
             /\ req'[r].rec.ID \notin issued \cup DOMAIN store
             /\ req'[r].rec.Session = 0
             /\ req'[r].rec.IdleDeadline = ZeroTime
             /\ req'[r].rec.AbsoluteDeadline = now' + AbsoluteTimeout
       /\ /\ req'[r].outcome \in {"nocookie", "manycookies", "notfound"}
          /\ req'[r].saveCalls = 0
          => req'[r].rec.IdleDeadline = ZeroTime]_vars

\* A request arrived with the cookie of a stored session that carries a
\* payload and whose idle deadline has passed, and holds a fresh record
C15_Witness ==
  \E r \in Reqs :
    /\ req[r].pc = "guard" /\ req[r].outcome = "notfound"
    /\ req[r].cookie \in DOMAIN store
    /\ After(now, store[req[r].cookie].IdleDeadline)
    /\ store[req[r].cookie].Session > 0
    /\ req[r].rec.ID \in RandIDs \ {req[r].cookie}
    /\ req[r].rec.Session = 0
    /\ req[r].rec.IdleDeadline = ZeroTime
    /\ req[r].rec.AbsoluteDeadline = now + AbsoluteTimeout

\* C16: a request that carries more than one session cookie is handled like a
\* request with none: Store.Load is not called and cannot fail, ErrorHandler
\* is not called, and the request reaches the guard with a fresh record that
\* still has the flags getRecord gave it.
C16_ManyCookiesAsNone ==
  [][\A r \in Reqs :
       req[r].pc = "idle" /\ req'[r].outcome = "manycookies" =>
         /\ req'[r] =
              [IdleReq EXCEPT
                 !.pc = "guard",
                 !.outcome = "manycookies",
                 !.rec = [ID |-> RandName(nextRand + 1),
                          IdleDeadline |-> ZeroTime,
                          AbsoluteDeadline |-> now' + AbsoluteTimeout,
                          Session |-> 0,
                          deleted |-> FALSE,
                          readOnly |-> TRUE]]
         /\ nextRand' = nextRand + 1
         /\ faults' = faults
         /\ store' = store]_vars

\* A request that carried several session cookies, at a time when a stored
\* session's cookie was among those a client could send, reached the guard
C16_Witness ==
  \E r \in Reqs :
    /\ req[r].pc = "guard" /\ req[r].outcome = "manycookies"
    /\ req[r].errCalls = 0 /\ ~req[r].unheld
    /\ req[r].rec.readOnly
    /\ issued \cap DOMAIN store # {}

\* C17: a request whose handler renewed the session ID and is over leaves no
\* record under the ID it started with and a record under the new ID that
\* carries the payload and the absolute deadline set by the renewal, and its
\* response carries one cookie, whose value is the new ID.
C17_RenewMovesSession ==
  \A r \in Reqs :
    /\ req[r].pc = "unreg" /\ ~req[r].panicked
    /\ req[r].renewed /\ ~req[r].rec.deleted
    => /\ req[r].regID # req[r].rec.ID
       /\ req[r].regID \notin DOMAIN store
       /\ req[r].rec.ID \in DOMAIN store
       /\ store[req[r].rec.ID].Session = req[r].rec.Session
       /\ store[req[r].rec.ID].AbsoluteDeadline = req[r].rec.AbsoluteDeadline
       /\ Len(req[r].cookieOut) = 1
       /\ req[r].cookieOut[1].Value = req[r].rec.ID

\* C18: in a chain of requests that each present the previous response's
\* cookie, increment the counter once and write, the request that is the k-th
\* has, once it has written, the counter value k stored under the ID the first
\* response announced, which is the only ID ever stored or announced, and its
\* cookie carries that ID.
C18_CounterFollowsRequests ==
  /\ issued \subseteq {RandName(1)}
  /\ DOMAIN store \subseteq {RandName(1)}
  /\ \A r \in Reqs :
       PastGuard(r) /\ req[r].done =>
         /\ req[r].rec.ID = RandName(1)
         /\ RandName(1) \in DOMAIN store
         /\ store[RandName(1)].Session = started
         /\ Len(req[r].cookieOut) = 1
         /\ req[r].cookieOut[1].Value = RandName(1)
  /\ (\A r \in Reqs : req[r].pc = "idle") /\ started > 0 =>
         /\ RandName(1) \in DOMAIN store
         /\ store[RandName(1)].Session = started

\* The last request of a chain of MaxStarts requests has written its response
\* and the stored counter is MaxStarts
C18_Witness ==
  /\ started = MaxStarts
  /\ req[1].pc = "unreg" /\ req[1].done /\ req[1].outcome = "found"
  /\ RandName(1) \in DOMAIN store
  /\ store[RandName(1)].Session = MaxStarts


\* C19: once the handler of a request has called Delete, no later Get or Read
\* of that request returns the payload: each of them panics
C19_NoPayloadAfterDelete ==
  \A r \in Reqs : req[r].afterDel # "served"


\* Request r makes an accessor call with its unwrapped context
BareStep(r) == req'[r].bare # req[r].bare /\ req'[r].bare.res # "none"

\* C20: Get, Read, Delete and Renew called with the context of a request that
\* Handler has not wrapped panic: no payload is returned, the Store is not
\* called, and the call is not passed over in silence
C20_UnwrappedCallPanics ==
  [][\A r \in Reqs :
       BareStep(r) =>
         /\ req'[r].bare.res = "panic"
         /\ req'[r] = [req[r] EXCEPT !.bare = req'[r].bare]
         /\ UNCHANGED <<now, store, active, nextRand, issued, started, faults>>]_vars

C20_Witness ==
  /\ req[1].pc = "idle"
  /\ req[1].bare = [op |-> "Renew", res |-> "panic"]
  /\ store # << >>

\* Request r calls Store.Save and the call returns an error
FailedSaveStep(r) ==
  /\ req'[r].saveCalls = req[r].saveCalls + 1
  /\ faults' = faults + 1

\* C21: every error that Store.Save returns in the save protocol, whether at
\* the first Write, the first WriteHeader or the save after the handler has
\* returned, is handed to the ErrorHandler
C21_SaveErrorsReachHandler ==
  [][\A r \in Reqs :
       FailedSaveStep(r) => req'[r].errCalls = req[r].errCalls + 1]_vars

\* The same for the writer's two paths alone: the request stays in its handler
C21_WriterSaveErrorsReachHandler ==
  [][\A r \in Reqs :
       FailedSaveStep(r) /\ req'[r].pc = "handler" =>
         req'[r].errCalls = req[r].errCalls + 1 /\ req'[r].failed]_vars


\* C22: a request whose Store.Load returned an error has had the ErrorHandler
\* called once and goes no further: its handler is not run, it registers no
\* ID in the guard, and it calls neither Store.Save nor Store.Delete
C22_LoadErrorStopsRequest ==
  \A r \in Reqs :
    req[r].outcome = "loaderr" =>
      /\ req[r].pc = "rejected"
      /\ req[r].errCalls = 1
      /\ HandlerNotRun(r)
      /\ req[r].regID = ""
      /\ req[r].afterDel = "no" /\ ~req[r].renewed
      /\ active \subseteq {req[q].regID : q \in {p \in Reqs \ {r} : PastGuard(p)}}

C22_Witness ==
  /\ req[2].outcome = "loaderr"
  /\ req[1].pc = "handler" /\ req[1].outcome = "found"
  /\ req[2].cookie = req[1].rec.ID


\* C23: once the save protocol has failed inside Write or WriteHeader, the
\* ErrorHandler has been called exactly once, later Write and WriteHeader
\* calls are dropped without a panic, and no further save is attempted
C23_FailedWritesDiscarded ==
  \A r \in Reqs :
    req[r].failed =>
      /\ req[r].errCalls = 1
      /\ req[r].saveCalls = 1
      /\ ~req[r].done
      /\ ~req[r].panicked

\* The part of it that does not concern later writes
C23_FailedOnceNoSecondSave ==
  \A r \in Reqs :
    req[r].failed =>
      req[r].errCalls = 1 /\ req[r].saveCalls = 1 /\ ~req[r].done


\* C24: Load reports found exactly when a record is stored under the ID and
\* its IdleDeadline has not passed at the time of the call; it returns that
\* record, and it leaves the map as it was, an expired record included
C24_LoadFoundIffUnexpired ==
  LET c == mem.last
  IN  c.op = "Load" =>
        /\ c.found <=> (c.id \in DOMAIN c.before /\ c.t <= c.before[c.id].IdleDeadline)
        /\ c.found => c.ret = c.before[c.id]
        /\ store = c.before

C24_Witness ==
  /\ mem.last.op = "Load" /\ ~mem.last.found
  /\ mem.last.id \in DOMAIN store
  /\ store[mem.last.id].IdleDeadline < mem.last.t
  /\ mem.prev.op = "Load" /\ mem.prev.found /\ mem.prev.id = mem.last.id
  /\ mem.prev.t = mem.prev.ret.IdleDeadline


\* The record that Load returned carries what was saved
SameSaved(a, b) ==
  /\ a.ID = b.ID /\ a.Session = b.Session
  /\ a.IdleDeadline = b.IdleDeadline /\ a.AbsoluteDeadline = b.AbsoluteDeadline

\* A Save is followed at once by a Load of the same ID
SaveThenLoad ==
  mem.prev.op = "Save" /\ mem.last.op = "Load" /\ mem.last.id = mem.prev.id

\* C25 as stated: Save followed by Load of the same ID returns the saved
\* record when its IdleDeadline has not passed, and not-found when the
\* deadline had passed at the Save, which then left the map unchanged
C25_SaveThenLoad ==
  LET s == mem.prev
      l == mem.last
  IN  SaveThenLoad =>
        /\ l.t <= s.rec.IdleDeadline => l.found /\ SameSaved(l.ret, s.rec)
        /\ s.t > s.rec.IdleDeadline => ~l.found /\ l.before = s.before

\* C25: Save followed by Load of the same ID returns the saved record when its
\* IdleDeadline has not passed; when the deadline had passed at the Save, the
\* Save left the map unchanged and the Load answers from what the map held
\* before: not-found, unless an unexpired record was already stored under the ID
C25_SaveThenLoadLazy ==
  LET s == mem.prev
      l == mem.last
  IN  SaveThenLoad =>
        /\ l.t <= s.rec.IdleDeadline => l.found /\ SameSaved(l.ret, s.rec)
        /\ s.t > s.rec.IdleDeadline =>
             /\ l.before = s.before
             /\ l.found <=> (l.id \in DOMAIN s.before
                               /\ l.t <= s.before[l.id].IdleDeadline)
             /\ l.found => l.ret = s.before[l.id]

C25_Witness ==
  /\ SaveThenLoad
  /\ mem.prev.id \in DOMAIN mem.prev.before
  /\ mem.last.found /\ mem.last.ret = mem.prev.rec
  /\ mem.last.t = mem.prev.rec.IdleDeadline /\ mem.last.t > mem.prev.t


\* C26: Delete removes the record under its ID and nothing else; on an ID
\* that is not stored it changes nothing, so a second Delete changes nothing,
\* and a Load after Delete(id) does not find id
C26_DeleteIdempotent ==
  LET p == mem.prev
      c == mem.last
  IN  /\ c.op = "Delete" =>
           /\ DOMAIN store = DOMAIN c.before \ {c.id}
           /\ \A x \in DOMAIN store : store[x] = c.before[x]
           /\ c.id \notin DOMAIN c.before => store = c.before
           /\ p.op = "Delete" /\ p.id = c.id => store = c.before
      /\ c.op = "Load" /\ p.op = "Delete" /\ p.id = c.id => ~c.found

C26_Witness ==
  /\ mem.prev.op = "Delete" /\ mem.last.op = "Delete"
  /\ mem.prev.id = mem.last.id
  /\ mem.prev.id \in DOMAIN mem.prev.before
  /\ mem.prev.before[mem.prev.id].IdleDeadline >= mem.prev.t
  /\ store # << >>


\* C27: after DeleteExpired the map holds exactly the records it held before
\* whose IdleDeadline had not passed at the call, each of them unchanged
C27_DeleteExpiredKeepsUnexpired ==
  LET c == mem.last
  IN  c.op = "DeleteExpired" =>
        /\ DOMAIN store = {x \in DOMAIN c.before : c.t <= c.before[x].IdleDeadline}
        /\ \A x \in DOMAIN store : store[x] = c.before[x]

C27_Witness ==
  /\ mem.last.op = "DeleteExpired"
  /\ \E x \in DOMAIN mem.last.before : mem.last.before[x].IdleDeadline < mem.last.t
  /\ \E x \in DOMAIN store : store[x].IdleDeadline = mem.last.t


\* The store's map is what the calls made so far leave when each of them takes
\* effect at one instant, whenever no writer is inside the lock; and a Load
\* has returned what that map held at the instant it took effect
Linearized ==
  /\ mu.writer = 0 => store = lin
  /\ \A c \in Callers :
       callers[c].op = "Load" /\ callers[c].pc \in {"l_unlock", "done"} =>
         /\ callers[c].found = callers[c].linFound
         /\ callers[c].found => callers[c].ret = callers[c].at[callers[c].id]

\* A step changes the record under an unexpired ID only as a Save or a Delete
\* of that very ID
OtherIDsUntouched ==
  \A x \in DOMAIN store :
    /\ now <= store[x].IdleDeadline
    /\ x \notin DOMAIN store' \/ store'[x] # store[x]
    => \E c \in Callers :
         /\ callers'[c] # callers[c]
         /\ callers[c].id = x
         /\ callers[c].op \in {"Save", "Delete"}

\* C28: however concurrent Load, Save, Delete and DeleteExpired calls
\* interleave, every Load result and the map are those of the calls taking
\* effect one at a time in some order, and no call changes the record stored
\* under an unexpired ID other than its own
C28_CallsTakeEffectInOrder ==
  []Linearized /\ [][OtherIDsUntouched]_vars

C28_Witness ==
  /\ callers[1].op = "DeleteExpired" /\ callers[1].pc = "done"
  /\ callers[2].op = "Save" /\ callers[2].pc = "done"
  /\ callers[2].t < callers[1].t
  /\ callers[2].id \in callers[1].seen
  /\ callers[2].id \in DOMAIN store /\ store[callers[2].id] = callers[2].rec
  /\ mu = Unlocked


\* The loop leaves after cancellation
C29_ExitsAfterCancel == cleanup.cancelled ~> cleanup.pc = "exited"

\* C29: once the context is cancelled the cleanup loop eventually exits, and
\* it takes no further tick, so that it never calls DeleteExpired again
C29_CancelStopsCleanup ==
  /\ cleanup.cancelled ~> cleanup.pc = "exited"
  /\ [][cleanup.cancelled => ~(cleanup.pc = "select" /\ cleanup'.pc = "call")]_vars

\* C30: a DeleteExpired call that returns an error does not end the cleanup
\* task: while the context is not cancelled the loop is still running, and
\* at its select the next tick takes it into another DeleteExpired call
C30_ErrorKeepsCleanupRunning ==
  /\ [](cleanup.failed > 0 /\ ~cleanup.cancelled => cleanup.pc \in {"select", "call"})
  /\ (cleanup.failed > 0 /\ cleanup.pc = "select" /\ cleanup.tick /\ ~cleanup.cancelled)
       ~> (cleanup.pc = "call" \/ cleanup.cancelled)

C30_Witness ==
  /\ cleanup.failed = 1
  /\ cleanup.calls = 2
  /\ ~cleanup.cancelled
  /\ store # << >>

\* The record under x is in the store and its IdleDeadline has passed
Expired(x) == x \in DOMAIN store /\ After(now, store[x].IdleDeadline)

\* The cleanup task makes a DeleteExpired call that returns without error
CleanupCallStep == cleanup'.calls = cleanup.calls + 1 /\ faults' = faults

\* C31: while the cleanup task runs and is not cancelled, a record whose
\* IdleDeadline has passed is removed by the DeleteExpired call of the next
\* tick, and a call removes no record whose IdleDeadline has not passed
C31_CleanupRemovesExpired ==
  /\ [][CleanupCallStep =>
          /\ DOMAIN store' = {x \in DOMAIN store : ~Expired(x)}
          /\ \A x \in DOMAIN store' : store'[x] = store[x]]_vars
  /\ \A x \in MemIDs :
       (Expired(x) /\ cleanup.pc = "select" /\ cleanup.tick /\ ~cleanup.cancelled)
         ~> (x \notin DOMAIN store \/ cleanup.cancelled
               \/ (cleanup.failed > 0 /\ cleanup.failed = cleanup.calls))

C31_Witness ==
  /\ cleanup.gone # {}
  /\ store # << >>
  /\ \A x \in DOMAIN store : ~Expired(x)
  /\ cleanup.failed = 0 /\ ~cleanup.cancelled

\* C32: the flags are not persisted: when the wrapped handler starts, the
\* record's flags say "not touched, not deleted" (readOnly set, deleted
\* clear), whatever Load found
C32_FlagsFreshAtHandlerStart ==
  [][\A r \in Reqs :
       req[r].pc = "guard" /\ req'[r].pc = "handler"
         => req'[r].rec.readOnly /\ ~req'[r].rec.deleted]_vars


\* Request r saves its record: a Store.Save call that returns without error
SavesRecord(r) ==
  /\ req[r].pc = "handler"
  /\ req'[r].saveCalls = req[r].saveCalls + 1
  /\ faults' = faults

\* C33: no update is lost between requests for the same session: when a
\* request that presented a stored session's cookie has incremented the
\* counter once and saves, the stored counter goes up by one, so that the
\* counter reflects the increments of all requests that ran to completion
C33_NoLostUpdate ==
  [][\A r \in Reqs :
       SavesRecord(r) /\ req[r].outcome = "found" /\ req[r].rec.ID \in DOMAIN store
         => store'[req[r].rec.ID].Session = store[req[r].rec.ID].Session + 1]_vars


\* Request r takes a step that ends in, or starts from, its rejection
RejectedStep(r) ==
  /\ req'[r] # req[r]
  /\ req[r].pc = "rejected" \/ req'[r].pc = "rejected"

\* C34: a request rejected by the guard never removes the registration it
\* collided with: no step of a rejected request changes the registered IDs,
\* the ID of every accepted request in flight stays registered until that
\* request finishes, and nothing else is registered
C34_RejectedKeepsRegistration ==
  /\ [][\A r \in Reqs : RejectedStep(r) => active' = active]_vars
  /\ [](\A r \in Reqs : PastGuard(r) => req[r].regID \in active)
  /\ [](\A id \in active : \E r \in Reqs : PastGuard(r) /\ req[r].regID = id)

\* A request was turned away for the ID under which another one registered,
\* which has renewed its ID since and whose handler still runs
C34_Witness ==
  \E r, q \in Reqs :
    /\ req[r].pc = "rejected" /\ req[r].outcome = "conflict"
    /\ req[q].pc = "handler" /\ req[q].renewed
    /\ req[q].regID = req[r].rec.ID /\ req[q].rec.ID # req[q].regID
    /\ req[q].regID \in active


\* C35: a request whose handler called Renew and never Delete, whether before
\* the first write or after the response had started, ends with the payload
\* stored under the new ID and with the new ID in the cookie it sent
C35_RenewAtAnyPoint ==
  \A r \in Reqs :
    /\ req[r].pc = "unreg" /\ ~req[r].panicked
    /\ req[r].renewed /\ req[r].afterDel = "no"
    /\ faults = 0
    => /\ req[r].rec.ID \in DOMAIN store
       /\ store[req[r].rec.ID].Session = req[r].rec.Session
       /\ req[r].cookieOut # << >>
       /\ req[r].cookieOut[Len(req[r].cookieOut)].Value = req[r].rec.ID


\* Request r adds a session cookie (one that carries an ID) to its response
EmitsCookie(r) ==
  /\ Len(req'[r].cookieOut) = Len(req[r].cookieOut) + 1
  /\ req'[r].cookieOut[Len(req'[r].cookieOut)].Value # ""

\* The cookie request r has just added
Emitted(r) == req'[r].cookieOut[Len(req'[r].cookieOut)]

\* C36: a session cookie with a positive MaxAge is only sent while the Store
\* holds a record under its ID whose IdleDeadline is the one the MaxAge was
\* computed from, and no session cookie is sent for an ID whose Save was
\* skipped or failed: the record just saved is the one in the Store
C36_CookieMeansStored ==
  [][\A r \in Reqs :
       EmitsCookie(r)
         => /\ Emitted(r).Value \in DOMAIN store'
            /\ store'[Emitted(r).Value] = req'[r].rec
            /\ Emitted(r).MaxAge > 0 =>
                 Emitted(r).MaxAge =
                   WholeSeconds(store'[Emitted(r).Value].IdleDeadline - now')]_vars

\* C37: in a request whose record is dirty or deleted, no header commit or
\* body byte reaches the underlying response writer before the save protocol
\* has run and set the cookie, also when the handler reaches the underlying
\* writer through Unwrap (a Flush) before its first Write or WriteHeader
C37_NothingBeforeSaveProtocol ==
  \A r \in Reqs : req[r].flushed \notin {"dirty", "deleted"}

\* C38: the payload a handler observes at the start of a request depends only
\* on what the Store holds for the presented cookie ID, and is the zero
\* payload for a fresh session; it holds nothing that an earlier request left
\* in the pooled record
C38_PayloadFromStoreOnly ==
  [][\A r \in Reqs :
       req[r].pc = "idle" /\ req'[r].pc = "guard"
         => req'[r].rec.Session =
              IF req'[r].outcome = "found"
              THEN JsonUnmarshal(store[req'[r].cookie].data, ZeroPayload)
              ELSE ZeroPayload]_vars


\* A Store.Delete call made by Delete or Renew returns an error: a Store call
\* fails in a step that is neither a Load (no request arrives), nor a Save
\* (no Save is counted)
FailedDeleteStep ==
  /\ faults' = faults + 1
  /\ \A r \in Reqs : req'[r].pc = req[r].pc /\ req'[r].saveCalls = req[r].saveCalls

\* C39: when Store.Delete returns an error inside Delete or Renew, the call
\* hands the error back to the handler (no panic, no ErrorHandler call) and
\* leaves the request's record as it was: ID, deadlines, payload and the
\* dirty/deleted flags; the Store and the guard are unchanged as well
C39_FailedDeleteLeavesRecord ==
  [][FailedDeleteStep =>
       /\ \A r \in Reqs :
            /\ req'[r].rec = req[r].rec
            /\ req'[r].renewed = req[r].renewed
            /\ req'[r].errCalls = req[r].errCalls
            /\ req'[r].panicked = req[r].panicked
       /\ store' = store
       /\ active' = active]_vars

\* The handler of a request without a cookie has called Delete, the Store
\* returned an error, and the record is still untouched and not deleted
C39_Witness ==
  \E r \in Reqs :
    /\ req[r].pc = "handler" /\ req[r].outcome = "nocookie"
    /\ req[r].afterDel = "called" /\ faults = 1
    /\ ~req[r].rec.deleted /\ req[r].rec.readOnly
    /\ req[r].rec.ID = req[r].regID

====
